---------------------------- MODULE Spec2Model ----------------------------
(***************************************************************************)
(* Model of invoice_processor_wasm/serve.py: a development HTTP file       *)
(* server.  NoCacheHandler subclasses http.server.SimpleHTTPRequestHandler *)
(* and overrides end_headers and log_message; the module level computes    *)
(* PORT, changes directory, prints a banner, binds a socketserver.TCPServer*)
(* and runs serve_forever until KeyboardInterrupt.                         *)
(*                                                                         *)
(* The two overrides are only ever entered through the inherited methods   *)
(* (send_response -> log_request -> log_message, send_error -> log_error   *)
(* -> log_message, send_head -> end_headers), so the inherited call chain  *)
(* of CPython's http.server / socketserver is written out next to them.    *)
(* Strings are TLA+ strings; text operations work character by character.  *)
(***************************************************************************)
EXTENDS Integers, Sequences, FiniteSets, TLC

VARIABLES
    argv,        \* sys.argv[1:], a sequence of strings
    PORT,        \* module global PORT: {} before line 12 ran, {n} after
    cwd,         \* process working directory
    pc,          \* position of the main thread in the script
    stdout,      \* what print() wrote, in order
    stderr,      \* tracebacks written to standard error, in order
    bindCalls,   \* how many times a listener bind was attempted
    listenPort,  \* {} when no listening socket is open, {p} when bound to p
    exitStatus,  \* {} while running, {n} once the process has exited
    conn,        \* per client: connection state, request, response
    backlog,     \* kernel accept queue of the listening socket
    handledSeq,  \* clients in the order their handler started
    sigints,     \* SIGINTs delivered to the process
    probe        \* input and result of a stand-alone function evaluation

vars == <<argv, PORT, cwd, pc, stdout, stderr, bindCalls, listenPort,
          exitStatus, conn, backlog, handledSeq, sigints, probe>>

serverVars == <<argv, PORT, cwd, pc, stdout, stderr, bindCalls, listenPort,
                exitStatus, conn, backlog, handledSeq, sigints>>

---------------------------------------------------------------------------
(* Text helpers: Python str operations, character by character.            *)

Char(s, i) == SubSeq(s, i, i)

IsSpace(c) == c \in {" ", "\t"}

\* sub in s
Contains(sub, s) ==
    \E i \in 1..(Len(s) - Len(sub) + 1) : SubSeq(s, i, i + Len(sub) - 1) = sub

StartsWith(s, pre) == Len(s) >= Len(pre) /\ SubSeq(s, 1, Len(pre)) = pre

EndsWith(s, suf) ==
    Len(s) >= Len(suf) /\ SubSeq(s, Len(s) - Len(suf) + 1, Len(s)) = suf

\* s.split(): the maximal runs of non-whitespace characters, in order.
RECURSIVE SplitFrom(_, _, _)
SplitFrom(s, i, word) ==
    IF i > Len(s)
    THEN IF word = "" THEN <<>> ELSE <<word>>
    ELSE IF IsSpace(Char(s, i))
         THEN (IF word = "" THEN <<>> ELSE <<word>>) \o SplitFrom(s, i + 1, "")
         ELSE SplitFrom(s, i + 1, word \o Char(s, i))

Split(s) == SplitFrom(s, 1, "")

\* s.split(sep) for a one-character sep: every field, empty ones included.
RECURSIVE SplitOnFrom(_, _, _, _)
SplitOnFrom(s, sep, i, field) ==
    IF i > Len(s)
    THEN <<field>>
    ELSE IF Char(s, i) = sep
         THEN <<field>> \o SplitOnFrom(s, sep, i + 1, "")
         ELSE SplitOnFrom(s, sep, i + 1, field \o Char(s, i))

SplitOn(s, sep) == SplitOnFrom(s, sep, 1, "")

\* sep.join(parts)
RECURSIVE Join(_, _)
Join(sep, parts) ==
    IF parts = <<>> THEN ""
    ELSE IF Len(parts) = 1 THEN parts[1]
    ELSE parts[1] \o sep \o Join(sep, Tail(parts))

---------------------------------------------------------------------------
(* Python values passed as *args to log_message: str or int.               *)

Str(s) == [t |-> "str", v |-> s]
Int_(n) == [t |-> "int", v |-> n]

ESC == "\\033"

(* NoCacheHandler.log_message(format, *args).  The result is the line      *)
(* print() writes, or the exception the body raises.                       *)
\* Variant: the .ail test ahead of the .js test.
log_message_ail_first(format, args) ==
    IF args # <<>> /\ args[1].t # "str"
    THEN [raised |-> "AttributeError", line |-> ""]
    ELSE IF args # <<>> /\ Len(Split(args[1].v)) < 2
    THEN [raised |-> "IndexError", line |-> ""]
    ELSE
      LET path == IF args # <<>> THEN Split(args[1].v)[2] ELSE "" IN
      IF args = <<>>
      THEN [raised |-> "IndexError", line |-> ""]
      ELSE IF Contains(".ail", path)
      THEN [raised |-> "", line |-> ESC \o "[36m[AIL]" \o ESC \o "[0m " \o args[1].v]
      ELSE IF Contains(".js", path)
      THEN [raised |-> "", line |-> ESC \o "[33m[JS]" \o ESC \o "[0m " \o args[1].v]
      ELSE IF Contains(".wasm", path)
      THEN [raised |-> "", line |-> ESC \o "[35m[WASM]" \o ESC \o "[0m " \o args[1].v]
      ELSE [raised |-> "", line |-> "[REQ] " \o args[1].v]

log_message(format, args) ==
    \* line 26: args[0].split()[1] if args else ''
    IF args # <<>> /\ args[1].t # "str"
    THEN [raised |-> "AttributeError", line |-> ""]   \* int has no .split
    ELSE IF args # <<>> /\ Len(Split(args[1].v)) < 2
    THEN [raised |-> "IndexError", line |-> ""]       \* [1] out of range
    ELSE
      LET path == IF args # <<>> THEN Split(args[1].v)[2] ELSE "" IN
      IF args = <<>>
      THEN [raised |-> "IndexError", line |-> ""]     \* lines 27-34 index args[0]
      ELSE IF Contains(".js", path)
      THEN [raised |-> "", line |-> ESC \o "[33m[JS]" \o ESC \o "[0m " \o args[1].v]
      ELSE IF Contains(".ail", path)
      THEN [raised |-> "", line |-> ESC \o "[36m[AIL]" \o ESC \o "[0m " \o args[1].v]
      ELSE IF Contains(".wasm", path)
      THEN [raised |-> "", line |-> ESC \o "[35m[WASM]" \o ESC \o "[0m " \o args[1].v]
      ELSE [raised |-> "", line |-> "[REQ] " \o args[1].v]

---------------------------------------------------------------------------
(* The filesystem the process runs on.  The script lives in ROOT, which    *)
(* line 36 makes the working directory; SimpleHTTPRequestHandler serves    *)
(* os.getcwd().                                                            *)

ROOT == "/srv/demo"
LAUNCH == "/home/dev"

FILES == {"/srv/demo/index.html", "/srv/demo/app.js", "/srv/demo/model.ail",
          "/srv/demo/core.wasm", "/srv/demo/lib/util.js",
          "/srv/secret.txt", "/etc/passwd", "/home/dev/notes.txt"}

DIRS == {"/", "/srv", "/srv/demo", "/srv/demo/lib", "/etc", "/home", "/home/dev"}

\* Kernel path resolution of an absolute path: "." and "" are skipped, ".."
\* steps to the parent ("/.." is "/").
RECURSIVE ResolveComps(_, _)
ResolveComps(comps, stack) ==
    IF comps = <<>> THEN stack
    ELSE LET c == Head(comps) IN
         IF c \in {"", "."} THEN ResolveComps(Tail(comps), stack)
         ELSE IF c = ".."
         THEN ResolveComps(Tail(comps),
                           IF stack = <<>> THEN stack
                           ELSE SubSeq(stack, 1, Len(stack) - 1))
         ELSE ResolveComps(Tail(comps), Append(stack, c))

Realpath(p) == "/" \o Join("/", ResolveComps(SplitOn(p, "/"), <<>>))

isdir(p) == Realpath(p) \in DIRS

\* A regular file; a trailing slash makes the kernel demand a directory.
isfile(p) == Realpath(p) \in FILES /\ ~EndsWith(p, "/")

\* root itself or a descendant of root
Under(root, p) == Realpath(p) = root \/ StartsWith(Realpath(p), root \o "/")

---------------------------------------------------------------------------
(* Inherited path handling: urllib.parse.unquote, posixpath.normpath and   *)
(* SimpleHTTPRequestHandler.translate_path, reached from do_GET/do_HEAD of *)
(* the class declared on line 14.                                          *)

\* The escapes the modelled requests use; any other "%" stays as it is.
Unhex(pair) ==
    CASE pair \in {"2e", "2E"} -> "."
      [] pair \in {"2f", "2F"} -> "/"
      [] pair = "25" -> "%"
      [] OTHER -> ""

RECURSIVE UnquoteFrom(_, _)
UnquoteFrom(s, i) ==
    IF i > Len(s) THEN ""
    ELSE IF Char(s, i) = "%" /\ i + 2 <= Len(s) /\ Unhex(SubSeq(s, i + 1, i + 2)) # ""
         THEN Unhex(SubSeq(s, i + 1, i + 2)) \o UnquoteFrom(s, i + 3)
         ELSE Char(s, i) \o UnquoteFrom(s, i + 1)

unquote(s) == UnquoteFrom(s, 1)

\* s.split(sep, 1)[0]
RECURSIVE BeforeFrom(_, _, _)
BeforeFrom(s, sep, i) ==
    IF i > Len(s) \/ Char(s, i) = sep THEN ""
    ELSE Char(s, i) \o BeforeFrom(s, sep, i + 1)

Before(s, sep) == BeforeFrom(s, sep, 1)

\* s.lstrip('/')
RECURSIVE LStripSlash(_)
LStripSlash(s) ==
    IF s # "" /\ Char(s, 1) = "/" THEN LStripSlash(SubSeq(s, 2, Len(s))) ELSE s

\* posixpath.normpath
RECURSIVE NormComps(_, _, _)
NormComps(comps, new, rooted) ==
    IF comps = <<>> THEN new
    ELSE LET comp == Head(comps) IN
         IF comp \in {"", "."} THEN NormComps(Tail(comps), new, rooted)
         ELSE IF comp # ".."
                 \/ (~rooted /\ new = <<>>)
                 \/ (new # <<>> /\ new[Len(new)] = "..")
         THEN NormComps(Tail(comps), Append(new, comp), rooted)
         ELSE IF new # <<>>
         THEN NormComps(Tail(comps), SubSeq(new, 1, Len(new) - 1), rooted)
         ELSE NormComps(Tail(comps), new, rooted)

normpath(path) ==
    IF path = "" THEN "."
    ELSE LET initial == IF ~StartsWith(path, "/") THEN ""
                        ELSE IF StartsWith(path, "//") /\ ~StartsWith(path, "///")
                             THEN "//" ELSE "/"
             joined == initial \o Join("/", NormComps(SplitOn(path, "/"), <<>>,
                                                       initial # ""))
         IN  IF joined = "" THEN "." ELSE joined

\* os.path.join(path, word) for a word that does not start with "/"
pathjoin(path, word) ==
    IF path = "" \/ EndsWith(path, "/") THEN path \o word ELSE path \o "/" \o word

RECURSIVE JoinWords(_, _)
JoinWords(path, words) ==
    IF words = <<>> THEN path
    ELSE LET word == Head(words) IN
         IF word = "" THEN JoinWords(path, Tail(words))           \* filter(None, words)
         ELSE IF word \in {".", ".."} THEN JoinWords(path, Tail(words))
         ELSE JoinWords(pathjoin(path, word), Tail(words))

\* Variant: components "." and ".." are joined like any other word.
RECURSIVE JoinWordsKeepDots(_, _)
JoinWordsKeepDots(path, words) ==
    IF words = <<>> THEN path
    ELSE LET word == Head(words) IN
         IF word = "" THEN JoinWordsKeepDots(path, Tail(words))
         ELSE JoinWordsKeepDots(pathjoin(path, word), Tail(words))

translate_path_keep_dots(directory, path) ==
    LET p1 == Before(Before(path, "?"), "#")
        p3 == normpath(unquote(p1))
        joined == JoinWordsKeepDots(directory, SplitOn(p3, "/"))
    IN  IF EndsWith(p1, "/") THEN joined \o "/" ELSE joined

\* SimpleHTTPRequestHandler.translate_path with self.directory = directory
translate_path(directory, path) ==
    LET p1 == Before(Before(path, "?"), "#")
        trailing_slash == EndsWith(p1, "/")
        p3 == normpath(unquote(p1))
        joined == JoinWords(directory, SplitOn(p3, "/"))
    IN  IF trailing_slash THEN joined \o "/" ELSE joined

---------------------------------------------------------------------------
(* One request handler object.  Its fields are the attributes the methods  *)
(* read and write; out is what it printed, buf the unsent header buffer,   *)
(* head and body what reached the client socket, opened the filesystem     *)
(* paths it looked at, raised the exception propagating out of it.         *)

NewHandler(req, directory) ==
    [requestline |-> req.line, ims |-> req.ims, directory |-> directory,
     request_version |-> "HTTP/0.9", command |-> "", path |-> "",
     parsed |-> FALSE, out |-> <<>>, buf |-> <<>>, head |-> <<>>, body |-> "",
     opened |-> {}, raised |-> ""]

Ok(h) == h.raised = ""

(* Each method below takes the handler as h0 and binds it once to h, so    *)
(* that a chain of calls is evaluated once per call.                       *)

\* BaseHTTPRequestHandler.log_request -> self.log_message
log_request(h0, code) ==
    CHOOSE res \in {
        IF ~Ok(h) THEN h
        ELSE IF r.raised # "" THEN [h EXCEPT !.raised = r.raised]
             ELSE [h EXCEPT !.out = Append(@, r.line)]
        : h \in {h0},
          r \in {log_message("\"%s\" %s %s",
                             <<Str(h0.requestline), Str(ToString(code)), Str("-")>>)}
    } : TRUE

\* BaseHTTPRequestHandler.log_error -> self.log_message
log_error(h0, code, message) ==
    CHOOSE res \in {
        IF ~Ok(h) THEN h
        ELSE IF r.raised # "" THEN [h EXCEPT !.raised = r.raised]
             ELSE [h EXCEPT !.out = Append(@, r.line)]
        : h \in {h0},
          r \in {log_message("code %d, message %s", <<Int_(code), Str(message)>>)}
    } : TRUE

\* BaseHTTPRequestHandler.send_response_only (protocol_version is HTTP/1.0)
send_response_only(h0, code, message) ==
    CHOOSE res \in {
        IF ~Ok(h) \/ h.request_version = "HTTP/0.9" THEN h
        ELSE [h EXCEPT !.buf = Append(@, "HTTP/1.0 " \o ToString(code) \o " " \o message)]
        : h \in {h0} } : TRUE

\* BaseHTTPRequestHandler.send_header
send_header(h0, keyword, value) ==
    CHOOSE res \in {
        IF ~Ok(h) \/ h.request_version = "HTTP/0.9" THEN h
        ELSE [h EXCEPT !.buf = Append(@, keyword \o ": " \o value)]
        : h \in {h0} } : TRUE

\* BaseHTTPRequestHandler.send_response
send_response(h0, code, message) ==
    send_header(
        send_header(send_response_only(log_request(h0, code), code, message),
                    "Server", "SimpleHTTP/0.6"),
        "Date", "now")

\* BaseHTTPRequestHandler.end_headers and flush_headers: an HTTP/0.9 request
\* has no header buffer and nothing is written.
base_end_headers(h0) ==
    CHOOSE res \in {
        IF ~Ok(h) \/ h.request_version = "HTTP/0.9" THEN h
        ELSE [h EXCEPT !.head = @ \o h.buf \o <<"">>, !.buf = <<>>]
        : h \in {h0} } : TRUE

\* NoCacheHandler.end_headers, lines 15-22
end_headers(h0) ==
    base_end_headers(
        send_header(
            send_header(
                send_header(
                    send_header(h0, "Cache-Control",
                                "no-store, no-cache, must-revalidate, max-age=0"),
                    "Pragma", "no-cache"),
                "Expires", "0"),
            "Access-Control-Allow-Origin", "*"))

\* wfile.write of a response body
write_body(h0, data) ==
    CHOOSE res \in {
        IF ~Ok(h) THEN h ELSE [h EXCEPT !.body = @ \o data]
        : h \in {h0} } : TRUE

\* BaseHTTPRequestHandler.send_error: the error is logged first, then the
\* status line, the headers and the error page follow.
send_error(h0, code, message) ==
    LET hasBody == code >= 200 /\ code \notin {204, 205, 304}
        h2 == send_header(send_response(log_error(h0, code, message), code, message),
                          "Connection", "close")
        h3 == IF hasBody
              THEN send_header(send_header(h2, "Content-Type", "text/html;charset=utf-8"),
                               "Content-Length", "len")
              ELSE h2
    IN  CHOOSE res \in {
            IF h.command # "HEAD" /\ hasBody
            THEN write_body(h, "<error " \o ToString(code) \o ">")
            ELSE h
            : h \in {end_headers(h3)} } : TRUE

\* BaseHTTPRequestHandler.parse_request.  parsed tells whether it returned
\* True.  The version check is written for the versions requests carry:
\* HTTP/1.0 and HTTP/1.1 are accepted, HTTP/2.0 is 505, anything else is 400.
parse_request(h) ==
    LET words == Split(h.requestline)
        version == words[Len(words)]
    IN
    IF Len(words) = 0 THEN h
    ELSE IF Len(words) >= 3 /\ version \notin {"HTTP/1.0", "HTTP/1.1", "HTTP/2.0"}
    THEN send_error(h, 400, "Bad request version")
    ELSE IF Len(words) >= 3 /\ version = "HTTP/2.0"
    THEN send_error(h, 505, "Invalid HTTP version")
    ELSE
      LET hv == IF Len(words) >= 3 THEN [h EXCEPT !.request_version = version] ELSE h
      IN
      IF ~(2 <= Len(words) /\ Len(words) <= 3)
      THEN send_error(hv, 400, "Bad request syntax")
      ELSE IF Len(words) = 2 /\ words[1] # "GET"
      THEN send_error(hv, 400, "Bad HTTP/0.9 request type")
      ELSE [hv EXCEPT !.command = words[1],
                      !.path = IF StartsWith(words[2], "//")
                               THEN "/" \o LStripSlash(words[2])
                               ELSE words[2],
                      !.parsed = TRUE]

\* SimpleHTTPRequestHandler.list_directory
list_directory(h, path) ==
    end_headers(
        send_header(
            send_header(send_response(h, 200, "OK"),
                        "Content-type", "text/html; charset=utf-8"),
            "Content-Length", "len"))

\* SimpleHTTPRequestHandler.send_head.  file is what the caller copies to
\* the client, "" when there is nothing to copy.
send_head(h) ==
    CHOOSE res \in {
        LET urlpath == Before(Before(h.path, "?"), "#")
            index == IF isfile(pathjoin(path0, "index.html"))
                     THEN pathjoin(path0, "index.html")
                     ELSE IF isfile(pathjoin(path0, "index.htm"))
                     THEN pathjoin(path0, "index.htm")
                     ELSE ""
            h0 == [h EXCEPT !.opened = @ \cup {path0}]
        IN
        IF isdir(path0) /\ ~EndsWith(urlpath, "/")
        THEN [h |-> end_headers(
                        send_header(
                            send_header(send_response(h0, 301, "Moved Permanently"),
                                        "Location", urlpath \o "/"),
                            "Content-Length", "0")),
              file |-> ""]
        ELSE IF isdir(path0) /\ index = ""
        THEN [h |-> list_directory(h0, path0),
              file |-> "<listing of " \o Realpath(path0) \o ">"]
        ELSE
          LET path == IF isdir(path0) THEN index ELSE path0
              h1 == [h0 EXCEPT !.opened = @ \cup {path}]
          IN
          IF EndsWith(path, "/") \/ ~isfile(path)
          THEN [h |-> send_error(h1, 404, "File not found"), file |-> ""]
          ELSE IF h.ims
          THEN [h |-> end_headers(send_response(h1, 304, "Not Modified")), file |-> ""]
          ELSE [h |-> end_headers(
                          send_header(
                              send_header(
                                  send_header(send_response(h1, 200, "OK"),
                                              "Content-type", "guessed"),
                                  "Content-Length", "len"),
                              "Last-Modified", "mtime")),
                file |-> "<contents of " \o Realpath(path) \o ">"]
        : path0 \in {translate_path(h.directory, h.path)} } : TRUE

\* SimpleHTTPRequestHandler.do_GET
do_GET(h) ==
    CHOOSE res \in {
        IF Ok(r.h) /\ r.file # "" THEN write_body(r.h, r.file) ELSE r.h
        : r \in {send_head(h)} } : TRUE

\* SimpleHTTPRequestHandler.do_HEAD
do_HEAD(h) == send_head(h).h

\* BaseHTTPRequestHandler.handle_one_request
handle_one_request(h) ==
    CHOOSE res \in {
        IF ~Ok(h1) \/ ~h1.parsed THEN h1
        ELSE IF h1.command = "GET" THEN do_GET(h1)
        ELSE IF h1.command = "HEAD" THEN do_HEAD(h1)
        ELSE send_error(h1, 501, "Unsupported method")
        : h1 \in {parse_request(h)} } : TRUE

---------------------------------------------------------------------------
(* The process: module-level statements of serve.py, in order.             *)

MaxClients == 2

Clients == 1..MaxClients

\* Command lines: no argument, or one argument.
ArgvChoices == {<<>>, <<"9000">>, <<"0">>, <<"70000">>, <<"abc">>}

\* Ports the kernel hands out when asked to bind port 0.
EphemeralPorts == {49152, 49153}

\* Requests clients send: the request line, and whether an If-Modified-Since
\* header matching the file's mtime comes with it.
Req(line, ims) == [line |-> line, ims |-> ims]

Requests ==
    { Req("GET /index.html HTTP/1.1", FALSE),
      Req("GET /core.wasm HTTP/1.1", TRUE),
      Req("GET /lib HTTP/1.1", FALSE),
      Req("GET /missing.js HTTP/1.1", FALSE),
      Req("GET /index.html", FALSE),
      Req("POST /index.html HTTP/1.1", FALSE),
      Req("GARBAGE", FALSE) }

NoReq == Req("", FALSE)

Digits == "0123456789"

IsDigit(c) == \E i \in 1..10 : Char(Digits, i) = c

DigitVal(c) == (CHOOSE i \in 1..10 : Char(Digits, i) = c) - 1

RECURSIVE IntOfFrom(_, _, _)
IntOfFrom(s, i, acc) ==
    IF i > Len(s) THEN acc ELSE IntOfFrom(s, i + 1, acc * 10 + DigitVal(Char(s, i)))

\* int(s) for s a run of decimal digits; anything else is a ValueError.
IsIntLiteral(s) == s # "" /\ \A i \in 1..Len(s) : IsDigit(Char(s, i))
IntOf(s) == IntOfFrom(s, 1, 0)

\* f"{n:<5}": the decimal digits, padded with spaces on the right to 5
RECURSIVE PadRight(_, _)
PadRight(s, w) == IF Len(s) >= w THEN s ELSE PadRight(s \o " ", w)

\* Variant: the argument is ignored.
port_expr_default_only(args) == [raised |-> "", value |-> 8888]

\* line 12: int(sys.argv[1]) if len(sys.argv) > 1 else 8888
port_expr(args) ==
    IF Len(args) > 0
    THEN IF IsIntLiteral(args[1])
         THEN [raised |-> "", value |-> IntOf(args[1])]
         ELSE [raised |-> "ValueError", value |-> 0]
    ELSE [raised |-> "", value |-> 8888]

\* lines 38-46: the banner text that varies
banner(port) == "URL: http://localhost:" \o PadRight(ToString(port), 5)

ThePort == CHOOSE p \in PORT : TRUE

Out(src, text) == [src |-> src, text |-> text]

ServerInit ==
    /\ PORT = {}
    /\ cwd = LAUNCH
    /\ pc = "line12"
    /\ stdout = <<>>
    /\ stderr = <<>>
    /\ bindCalls = 0
    /\ listenPort = {}
    /\ exitStatus = {}
    /\ conn = [c \in Clients |->
                 [st |-> "none", req |-> NoReq, port |-> {}, head |-> <<>>,
                  body |-> "", opened |-> {}, raised |-> ""]]
    /\ backlog = <<>>
    /\ handledSeq = <<>>
    /\ sigints = 0

Init ==
    /\ argv \in ArgvChoices
    /\ ServerInit
    /\ probe = [kind |-> "none"]

\* An exception nobody catches: traceback on stderr, exit status 1.
Die(exc) ==
    /\ stderr' = Append(stderr, exc)
    /\ exitStatus' = {1}
    /\ pc' = "exited"

\* line 12
ComputePort ==
    /\ pc = "line12"
    /\ LET r == port_expr(argv) IN
       IF r.raised # ""
       THEN /\ Die(r.raised)
            /\ UNCHANGED PORT
       ELSE /\ PORT' = {r.value}
            /\ pc' = "line36"
            /\ UNCHANGED <<stderr, exitStatus>>
    /\ UNCHANGED <<argv, cwd, stdout, bindCalls, listenPort, conn, backlog,
                   handledSeq, sigints, probe>>

\* line 36: os.chdir(os.path.dirname(os.path.abspath(__file__)))
Chdir ==
    /\ pc = "line36"
    /\ cwd' = ROOT
    /\ pc' = "line38"
    /\ UNCHANGED <<argv, PORT, stdout, stderr, bindCalls, listenPort, exitStatus,
                   conn, backlog, handledSeq, sigints, probe>>

\* lines 38-46
Banner ==
    /\ pc = "line38"
    /\ stdout' = Append(stdout, Out(0, banner(ThePort)))
    /\ pc' = "line48"
    /\ UNCHANGED <<argv, PORT, cwd, stderr, bindCalls, listenPort, exitStatus,
                   conn, backlog, handledSeq, sigints, probe>>

\* line 48, socketserver.TCPServer(("", PORT), NoCacheHandler): server_bind
\* and server_activate succeed.  Port 0 asks the kernel for any free port.
BindOk ==
    /\ pc = "line48"
    /\ ThePort >= 0 /\ ThePort <= 65535
    /\ \E p \in (IF ThePort = 0 THEN EphemeralPorts ELSE {ThePort}) :
           listenPort' = {p}
    /\ bindCalls' = bindCalls + 1
    /\ pc' = "serving"
    /\ UNCHANGED <<argv, PORT, cwd, stdout, stderr, exitStatus, conn, backlog,
                   handledSeq, sigints, probe>>

\* Variant: a failed bind falls back to the next port and tries again.
BindFails_fallback ==
    /\ pc = "line48"
    /\ bindCalls < 2
    /\ bindCalls' = bindCalls + 1
    /\ stderr' = Append(stderr, "bind failed")
    /\ PORT' = {ThePort + 1}
    /\ UNCHANGED <<argv, cwd, pc, stdout, listenPort, exitStatus, conn, backlog,
                   handledSeq, sigints, probe>>

\* line 48: the constructor raises (address in use, permission denied, port
\* out of range); nothing catches it.
BindFails ==
    /\ pc = "line48"
    /\ bindCalls' = bindCalls + 1
    /\ stderr' = Append(stderr, "bind failed")
    /\ exitStatus' = {1}
    /\ pc' = "exited"
    /\ UNCHANGED <<argv, PORT, cwd, stdout, listenPort, conn, backlog,
                   handledSeq, sigints, probe>>

\* A client connects to the listening socket and sends its request.
ClientConnect(c, r) ==
    /\ listenPort # {}
    /\ conn[c].st = "none"
    /\ conn' = [conn EXCEPT ![c].st = "queued", ![c].req = r, ![c].port = listenPort]
    /\ backlog' = Append(backlog, c)
    /\ UNCHANGED <<argv, PORT, cwd, pc, stdout, stderr, bindCalls, listenPort,
                   exitStatus, handledSeq, sigints, probe>>

\* Variant: a connection is accepted while a handler is still running.
accept_ready_threaded == pc \in {"serving", "handling"}

\* line 50, serve_forever: the loop is back at its selector only when the
\* previous _handle_request_noblock call has returned.
accept_ready == pc = "serving"

\* line 50: serve_forever -> _handle_request_noblock -> get_request
Accept ==
    /\ accept_ready
    /\ backlog # <<>>
    /\ conn' = [conn EXCEPT ![Head(backlog)].st = "handling"]
    /\ backlog' = Tail(backlog)
    /\ handledSeq' = Append(handledSeq, Head(backlog))
    /\ pc' = "handling"
    /\ UNCHANGED <<argv, PORT, cwd, stdout, stderr, bindCalls, listenPort,
                   exitStatus, sigints, probe>>

\* Variant: an exception of the handler leaves serve_forever.
request_outcome_propagates(h) ==
    IF h.raised # "" THEN [pc |-> "exited", exit |-> {1}]
    ELSE [pc |-> "serving", exit |-> {}]

\* socketserver.BaseServer._handle_request_noblock: an Exception raised by
\* process_request goes to handle_error (a traceback on stderr); the loop of
\* line 50 goes on whether the handler returned or raised.
request_outcome(h) == [pc |-> "serving", exit |-> {}]

HandlerLines(c, h) == [i \in 1..Len(h.out) |-> Out(c, h.out[i])]

\* line 50: process_request -> NoCacheHandler(request, client_address, server)
\* -> handle -> handle_one_request, then shutdown_request.
Handle(c) ==
    /\ pc = "handling"
    /\ conn[c].st = "handling"
    /\ \E h \in {handle_one_request(NewHandler(conn[c].req, cwd))} :
       \E o \in {request_outcome(h)} :
           /\ stdout' = stdout \o HandlerLines(c, h)
           /\ stderr' = IF h.raised # "" THEN Append(stderr, h.raised) ELSE stderr
           /\ conn' = [conn EXCEPT ![c].st = "closed", ![c].head = h.head,
                                   ![c].body = h.body, ![c].opened = h.opened,
                                   ![c].raised = h.raised]
           /\ pc' = o.pc
           /\ exitStatus' = o.exit
    /\ UNCHANGED <<argv, PORT, cwd, bindCalls, listenPort, backlog, handledSeq,
                   sigints, probe>>

\* What a handler in flight may already have printed when it is cut short:
\* any prefix of its output.
InFlightOutput ==
    IF \E c \in Clients : conn[c].st = "handling"
    THEN LET c == CHOOSE d \in Clients : conn[d].st = "handling"
             lines == HandlerLines(c, handle_one_request(NewHandler(conn[c].req, cwd)))
         IN  {SubSeq(lines, 1, k) : k \in 0..Len(lines)}
    ELSE {<<>>}

\* SIGINT while line 50 runs: KeyboardInterrupt unwinds serve_forever (a
\* handler in flight is abandoned and its connection shut down) and reaches
\* the except clause of line 51.
Interrupt ==
    /\ pc \in {"serving", "handling"}
    /\ sigints = 0
    /\ sigints' = sigints + 1
    /\ \E printed \in InFlightOutput : stdout' = stdout \o printed
    /\ conn' = [c \in Clients |->
                  IF conn[c].st = "handling" THEN [conn[c] EXCEPT !.st = "aborted"]
                  ELSE conn[c]]
    /\ pc' = "line52"
    /\ UNCHANGED <<argv, PORT, cwd, stderr, bindCalls, listenPort,
                   exitStatus, backlog, handledSeq, probe>>

\* SIGINT before line 49 is entered: nothing catches the KeyboardInterrupt.
InterruptEarly ==
    /\ pc \in {"line36", "line38", "line48"}
    /\ sigints = 0
    /\ sigints' = sigints + 1
    /\ stderr' = Append(stderr, "KeyboardInterrupt")
    /\ exitStatus' = {130}
    /\ pc' = "exited"
    /\ UNCHANGED <<argv, PORT, cwd, stdout, bindCalls, listenPort, conn, backlog,
                   handledSeq, probe>>

\* Variant: the except clause prints nothing.
stop_message_silent == <<>>

\* line 52: print("\nServer stopped.")
stop_message == <<Out(0, "\nServer stopped.")>>

StopMessage ==
    /\ pc = "line52"
    /\ stdout' = stdout \o stop_message
    /\ pc' = "with_exit"
    /\ UNCHANGED <<argv, PORT, cwd, stderr, bindCalls, listenPort, exitStatus,
                   conn, backlog, handledSeq, sigints, probe>>

\* line 48, leaving the with block: TCPServer.__exit__ -> server_close.
\* Connections still in the accept queue are reset by the kernel.
ServerClose ==
    /\ pc = "with_exit"
    /\ listenPort' = {}
    /\ backlog' = <<>>
    /\ conn' = [c \in Clients |->
                  IF conn[c].st = "queued" THEN [conn[c] EXCEPT !.st = "reset"]
                  ELSE conn[c]]
    /\ pc' = "end"
    /\ UNCHANGED <<argv, PORT, cwd, stdout, stderr, bindCalls, exitStatus,
                   handledSeq, sigints, probe>>

\* The script has run to its end: exit status 0.
Exit ==
    /\ pc = "end"
    /\ exitStatus' = {0}
    /\ pc' = "exited"
    /\ UNCHANGED <<argv, PORT, cwd, stdout, stderr, bindCalls, listenPort, conn,
                   backlog, handledSeq, sigints, probe>>

Next ==
    \/ ComputePort
    \/ Chdir
    \/ Banner
    \/ BindOk
    \/ BindFails
    \/ \E c \in Clients, r \in Requests : ClientConnect(c, r)
    \/ Accept
    \/ \E c \in Clients : Handle(c)
    \/ Interrupt
    \/ InterruptEarly
    \/ StopMessage
    \/ ServerClose
    \/ Exit

Spec == Init /\ [][Next]_vars

\* The main thread keeps running its script; nothing in it waits once the
\* interrupt has left the serve loop.
FairSpec == Spec /\ WF_vars(StopMessage) /\ WF_vars(ServerClose) /\ WF_vars(Exit)

---------------------------------------------------------------------------
(* log_message on its own: every request line built from a method, a path  *)
(* and a version is handed to it the way log_request does.                 *)

MaxLogPieces == 3

LogPieces == {"", "a", ".js", ".ail", ".wasm", ".j", "s", "?v="}

RECURSIVE Concats(_, _)
Concats(pieces, n) ==
    IF n = 0 THEN {""}
    ELSE {p \o q : p \in Concats(pieces, n - 1), q \in pieces}

LogPaths == {"/" \o p : p \in Concats(LogPieces, MaxLogPieces)}

InitLog ==
    /\ argv = <<>>
    /\ ServerInit
    /\ \E m \in {"GET", "HEAD"}, p \in LogPaths, v \in {"", " HTTP/1.1"} :
           probe = [kind |-> "log", path |-> p, line |-> m \o " " \o p \o v,
                    done |-> FALSE, result |-> [raised |-> "", line |-> ""]]

LogCall ==
    /\ probe.kind = "log"
    /\ ~probe.done
    /\ probe' = [probe EXCEPT
                   !.done = TRUE,
                   !.result = log_message("\"%s\" %s %s",
                                          <<Str(probe.line), Str("200"), Str("-")>>)]
    /\ UNCHANGED serverVars

NextLog == LogCall

SpecLog == InitLog /\ [][NextLog]_vars

---------------------------------------------------------------------------
(* The handler on its own, serving ROOT: one GET for every request path    *)
(* built from the pieces below.                                            *)

MaxPathPieces == 4

PathPieces == {"/", "../", "..", "etc", "%2e%2e", "%2F", "?", "lib"}

ProbePaths == Concats(PathPieces, MaxPathPieces) \ {""}

InitPath ==
    /\ argv = <<>>
    /\ ServerInit
    /\ \E p \in ProbePaths :
           probe = [kind |-> "path", path |-> p, done |-> FALSE, opened |-> {},
                    body |-> ""]

PathCall ==
    /\ probe.kind = "path"
    /\ ~probe.done
    /\ \E h \in {handle_one_request(
                     NewHandler(Req("GET " \o probe.path \o " HTTP/1.0", FALSE), ROOT))} :
           probe' = [probe EXCEPT !.done = TRUE, !.opened = h.opened, !.body = h.body]
    /\ UNCHANGED serverVars

NextPath == PathCall

SpecPath == InitPath /\ [][NextPath]_vars

---------------------------------------------------------------------------
(* Vocabulary of the properties.                                           *)

FourHeaders ==
    {"Cache-Control: no-store, no-cache, must-revalidate, max-age=0",
     "Pragma: no-cache", "Expires: 0", "Access-Control-Allow-Origin: *"}

HasFourHeaders(head) ==
    \A x \in FourHeaders : \E i \in 1..Len(head) : head[i] = x

IsClientError(head) == head # <<>> /\ StartsWith(head[1], "HTTP/1.0 4")

HasPath(req) == Len(Split(req.line)) >= 2

\* the request path names a file or directory of the document root
PathExists(req) ==
    LET p == translate_path(ROOT, Split(req.line)[2])
    IN  isdir(p) \/ isfile(p)

Completed(c) == conn[c].st = "closed"

IsHandlerLine(o) == o.src # 0
IsBanner(o) == o.src = 0 /\ StartsWith(o.text, "URL: ")
IsStop(o) == o.src = 0 /\ o.text = "\nServer stopped."

HandlerLines_stdout == SelectSeq(stdout, IsHandlerLine)
BannerCount == Len(SelectSeq(stdout, IsBanner))
StopCount == Len(SelectSeq(stdout, IsStop))

BindFailed == \E i \in 1..Len(stderr) : stderr[i] = "bind failed"

InServeLoop == pc \in {"serving", "handling"}

ExpectedPort == IF argv = <<>> THEN 8888 ELSE IntOf(argv[1])

---------------------------------------------------------------------------
(* C1.  Every handled request whose path does not exist under the document *)
(* root has been answered with a 4xx status line and a header block that   *)
(* carries the four injected headers.                                      *)
C1_MissingPathAnswered4xx ==
    \A c \in Clients :
        (Completed(c) /\ HasPath(conn[c].req) /\ ~PathExists(conn[c].req))
        => (IsClientError(conn[c].head) /\ HasFourHeaders(conn[c].head))

(* C2.  Every handled request whose path exists under the document root    *)
(* has been sent a response that includes the four injected headers.       *)
C2_ExistingPathHasHeaders ==
    \A c \in Clients :
        (Completed(c) /\ HasPath(conn[c].req) /\ PathExists(conn[c].req))
        => HasFourHeaders(conn[c].head)

(* C3.  While the process is in the serve loop, no step takes it out of    *)
(* the loop or ends it except the delivery of an interrupt; in particular  *)
(* a handler that raises (also inside log_message) leaves it in the loop.  *)
C3_OnlyInterruptLeavesLoop ==
    [][InServeLoop =>
          \/ (InServeLoop' /\ exitStatus' = {} /\ listenPort' = listenPort)
          \/ (pc' = "line52" /\ sigints' = sigints + 1)]_vars

\* A handler raised inside log_message and a later connection was handled.
C3_Witness ==
    \E c1, c2 \in Clients :
        /\ c1 # c2
        /\ handledSeq = <<c1, c2>>
        /\ Completed(c1) /\ conn[c1].raised = "AttributeError"
        /\ Completed(c2) /\ conn[c2].head # <<>>
        /\ pc = "serving"

(* C4.  Standard output holds exactly one request log line per handled     *)
(* request, the i-th line belonging to the i-th handled request.           *)
C4_OneLinePerRequest ==
    LET done == SelectSeq(handledSeq, Completed)
    IN  /\ Len(HandlerLines_stdout) = Len(done)
        /\ \A i \in 1..Len(done) : HandlerLines_stdout[i].src = done[i]

(* C5.  The line log_message prints for a request line is the tag chosen   *)
(* by substring match on the path token, .js before .ail before .wasm,     *)
(* [REQ] when none matches, followed by the request line.                  *)
C5_TagByFirstMatch ==
    (probe.kind = "log" /\ probe.done) =>
        LET js == Contains(".js", probe.path)
            ail == Contains(".ail", probe.path)
            wasm == Contains(".wasm", probe.path)
            out == probe.result.line
        IN  /\ probe.result.raised = ""
            /\ js => out = ESC \o "[33m[JS]" \o ESC \o "[0m " \o probe.line
            /\ (ail /\ ~js) => out = ESC \o "[36m[AIL]" \o ESC \o "[0m " \o probe.line
            /\ (wasm /\ ~js /\ ~ail)
                   => out = ESC \o "[35m[WASM]" \o ESC \o "[0m " \o probe.line
            /\ (~js /\ ~ail /\ ~wasm) => out = "[REQ] " \o probe.line

\* A path that contains .ail and .js has been logged as [JS].
C5_Witness ==
    /\ probe.kind = "log" /\ probe.done
    /\ Contains(".ail", probe.path) /\ Contains(".js", probe.path)
    /\ StartsWith(probe.result.line, ESC \o "[33m[JS]")

(* C6.  Once the bind of the listener has failed, the process has exited   *)
(* with a non-zero status after exactly one bind attempt; it never         *)
(* listened, accepted no connection, and printed the banner once.          *)
C6_BindFailureIsFatal ==
    BindFailed =>
        /\ pc = "exited"
        /\ exitStatus # {} /\ 0 \notin exitStatus
        /\ bindCalls = 1
        /\ listenPort = {}
        /\ handledSeq = <<>>
        /\ \A c \in Clients : conn[c].st = "none"
        /\ BannerCount = 1

C6_Witness == BindFailed /\ pc = "exited" /\ PORT = {9000}

(* C7.  After an interrupt in the serve loop no connection is accepted,    *)
(* and the process reaches its end: exit status 0, the stop message        *)
(* printed exactly once, the listening socket closed.                      *)
C7_InterruptStopsServer ==
    [][(pc \in {"line52", "with_exit", "end"})
           => (handledSeq' = handledSeq /\ pc' \notin {"serving", "handling"})]_vars
    /\ ((pc = "line52") ~>
            (pc = "exited" /\ exitStatus = {0} /\ StopCount = 1 /\ listenPort = {}))

\* The process ended after an interrupt that found a request in flight.
C7_Witness ==
    /\ pc = "exited" /\ exitStatus = {0}
    /\ \E c \in Clients : conn[c].st = "aborted"

(* C8.  Every filesystem path the handler looks at or reads for a request  *)
(* path is the document root or a descendant of it, and what it sends is   *)
(* the contents or listing of such a path.                                 *)
C8_StaysUnderRoot ==
    (probe.kind = "path" /\ probe.done) =>
        /\ \A p \in probe.opened : Under(ROOT, p)
        /\ probe.body \in {""}
               \cup {"<contents of " \o Realpath(p) \o ">" : p \in probe.opened}
               \cup {"<listing of " \o Realpath(p) \o ">" : p \in probe.opened}

\* A request path with ../ that climbs above the root when joined to it
\* as it stands, and for which the handler went to the filesystem.
C8_Witness ==
    /\ probe.kind = "path" /\ probe.done
    /\ Contains("../", probe.path)
    /\ ~Under(ROOT, ROOT \o "/" \o probe.path)
    /\ probe.opened # {}

\* The values that have to agree once they exist: PORT, the banner, the
\* port of the listening socket, the port each connection was made to.
C9_Agrees ==
    /\ PORT # {} => PORT = {ExpectedPort}
    /\ argv = <<>> => PORT \subseteq {8888}
    /\ argv = <<"9000">> => PORT \subseteq {9000}
    /\ \A i \in 1..Len(stdout) :
           IsBanner(stdout[i]) =>
               stdout[i].text = "URL: http://localhost:"
                                    \o PadRight(ToString(ExpectedPort), 5)
    /\ listenPort # {} => listenPort = PORT
    /\ \A c \in Clients : conn[c].port # {} => conn[c].port = PORT

\* The same, with the bound port tied to PORT only when PORT is not 0.
C9_AgreesUnlessZero ==
    /\ PORT # {} => PORT = {ExpectedPort}
    /\ argv = <<>> => PORT \subseteq {8888}
    /\ argv = <<"9000">> => PORT \subseteq {9000}
    /\ \A i \in 1..Len(stdout) :
           IsBanner(stdout[i]) =>
               stdout[i].text = "URL: http://localhost:"
                                    \o PadRight(ToString(ExpectedPort), 5)
    /\ (listenPort # {} /\ 0 \notin PORT) => listenPort = PORT
    /\ (listenPort # {} /\ 0 \in PORT) => 0 \notin listenPort
    /\ \A c \in Clients :
           conn[c].port # {} =>
               /\ 0 \notin PORT => conn[c].port = PORT
               /\ 0 \notin conn[c].port
               /\ listenPort # {} => conn[c].port = listenPort
               /\ \A d \in Clients : conn[d].port # {} => conn[d].port = conn[c].port

(* C9 as stated.  PORT is 8888 without an argument and the integer value   *)
(* of the first argument otherwise; PORT, the document root and the bound  *)
(* port never change once set; the banner, the listening socket and every  *)
(* served connection carry the value of PORT.                              *)
C9_PortFixedAndShared ==
    [][/\ C9_Agrees'
       /\ PORT # {} => PORT' = PORT
       /\ cwd = ROOT => cwd' = ROOT
       /\ listenPort # {} => listenPort' \subseteq listenPort]_vars

(* C9 as amended.  As above, except that an argument of 0 makes the kernel *)
(* choose the port of the listening socket: the banner then shows 0 and    *)
(* the socket, and every served connection, another port, the same one     *)
(* for the whole process lifetime.                                         *)
C9_PortFixedAndSharedUnlessZero ==
    [][/\ C9_AgreesUnlessZero'
       /\ PORT # {} => PORT' = PORT
       /\ cwd = ROOT => cwd' = ROOT
       /\ listenPort # {} => listenPort' \subseteq listenPort]_vars

\* Started with argument 9000, a request has been served on port 9000.
C9_Witness ==
    /\ argv = <<"9000">>
    /\ BannerCount = 1
    /\ \E c \in Clients : Completed(c) /\ conn[c].port = {9000} /\ conn[c].head # <<>>

(* C10.  At most one connection is being handled at any moment, none while *)
(* the loop waits for the next one, and the request log lines on standard  *)
(* output follow the order in which the connections were accepted.         *)
C10_OneAtATime ==
    LET handling == {c \in Clients : conn[c].st = "handling"}
        Pos(c) == CHOOSE k \in 1..Len(handledSeq) : handledSeq[k] = c
        L == HandlerLines_stdout
    IN  /\ Cardinality(handling) <= 1
        /\ pc = "serving" => handling = {}
        /\ \A i, j \in 1..Len(L) : i < j => Pos(L[i].src) <= Pos(L[j].src)

\* Two clients are connected at once: one is being handled, one waits.
C10_Witness ==
    \E c1, c2 \in Clients :
        /\ conn[c1].st = "handling"
        /\ conn[c2].st = "queued"

=============================================================================
